---------------------------- MODULE Spec2Model ----------------------------
(***************************************************************************)
(* Conversation store, tool-call protocol and agent loop of the Groto AI   *)
(* agent: AIAgent (src/agent/core.py), LangGraphAgent (src/agent/graph.py),*)
(* the tool registry and parser (src/agent/tools.py) and the HTTP handlers *)
(* that reach them (src/main.py).                                          *)
(*                                                                         *)
(* Text is a sequence of tokens.  The tokens "TOOL_CALL:", "PARAMETERS:",  *)
(* "\n" and " " stand for those literal substrings; every other token is   *)
(* an opaque word without whitespace, newline or either prefix in it.      *)
(* Python values are tagged records: [t |-> "none"], [t |-> "str", v],     *)
(* [t |-> "dict", v], [t |-> "list"].                                      *)
(***************************************************************************)
EXTENDS Integers, Sequences, FiniteSets, TLC

(* ------------------------------ bounds -------------------------------- *)
\* number of requests (chat or stream turns) a behaviour may issue
NumTurns == 2
\* tool rounds (agent -> tools -> agent) the LangGraph invocations of a
\* behaviour may make in total before the model stops asking for tools
MaxToolRounds == 2
\* chunks one model stream may produce
MaxChunks == 2
\* clear and history requests a behaviour may issue
MaxAdminOps == 1
\* streaming requests a behaviour may issue
MaxStreams == 1
\* messages the prompt-window specification may store in one conversation
MaxMessages == 12
\* lines of a model reply handed to parse_tool_call
MaxLines == 3
\* characters of a text handed to create_summary
MaxTextLen == 4
\* characters of an expression handed to calculate
MaxExprLen == 4

(* --------------------------- program constants ------------------------ *)
\* src/agent/core.py:178  state.messages[-10:]
WINDOW == 10

(* ------------------------------- text --------------------------------- *)
TC == "TOOL_CALL:"
PR == "PARAMETERS:"
NL == "\n"
SP == " "

None == [t |-> "none"]
Str(s) == [t |-> "str", v |-> s]
\* a dict is the set of its keys and, per key, the value
EmptyDict == [t |-> "dict", keys |-> {}]
ExprDict(e) == [t |-> "dict", keys |-> {"expression"}, expression |-> e]
List == [t |-> "list"]

\* Python truthiness of the values above (None, "", {} and [] are falsy)
Truthy(x) ==
    CASE x.t = "none" -> FALSE
      [] x.t = "str"  -> x.v # <<>>
      [] x.t = "dict" -> x.keys # {}
      [] x.t = "list" -> TRUE

RECURSIVE lstrip(_)
lstrip(s) ==
    IF s # <<>> /\ s[1] \in {SP, NL} THEN lstrip(Tail(s)) ELSE s

RECURSIVE rstrip(_)
rstrip(s) ==
    IF s # <<>> /\ s[Len(s)] \in {SP, NL}
    THEN rstrip(SubSeq(s, 1, Len(s) - 1))
    ELSE s

\* str.strip()
strip(s) == rstrip(lstrip(s))

\* str.split('\n'): always at least one (possibly empty) line
RECURSIVE split(_)
split(s) ==
    IF \E i \in 1..Len(s) : s[i] = NL
    THEN LET i == CHOOSE k \in 1..Len(s) :
                      s[k] = NL /\ \A j \in 1..(k - 1) : s[j] # NL
         IN <<SubSeq(s, 1, i - 1)>> \o split(SubSeq(s, i + 1, Len(s)))
    ELSE <<s>>

\* str.startswith(prefix) for the two prefixes
startswith(line, prefix) == line # <<>> /\ line[1] = prefix

\* str.replace(prefix, ""): removes every occurrence
RECURSIVE replace(_, _)
replace(line, prefix) ==
    IF line = <<>> THEN <<>>
    ELSE IF line[1] = prefix THEN replace(Tail(line), prefix)
    ELSE <<line[1]>> \o replace(Tail(line), prefix)

(* ------------------------------- JSON --------------------------------- *)
\* JSON documents the model may put after PARAMETERS:
JSON_EMPTY == "{}"
JSON_EXPR == "{\"expression\": \"2+2\"}"
JSON_LIST == "[1]"
JSON_NULL == "null"
JSON_BAD == "{bad"

EXPR_2_PLUS_2 == <<"2", "+", "2">>

JsonDocs == {JSON_EMPTY, JSON_EXPR, JSON_LIST, JSON_NULL}

\* json.loads: the decoded value, or [t |-> "JSONDecodeError"]
json_loads(s) ==
    IF Len(s) = 1 /\ s[1] \in JsonDocs
    THEN CASE s[1] = JSON_EMPTY -> EmptyDict
           [] s[1] = JSON_EXPR  -> ExprDict(EXPR_2_PLUS_2)
           [] s[1] = JSON_LIST  -> List
           [] s[1] = JSON_NULL  -> None
    ELSE [t |-> "JSONDecodeError"]

(* --------------------------- parse_tool_call -------------------------- *)
\* a loop body that keeps the earlier parameters when the JSON is malformed
ParseLine_KeepOld(acc, line) ==
    IF startswith(line, TC)
    THEN <<Str(strip(replace(line, TC))), acc[2]>>
    ELSE IF startswith(line, PR)
    THEN LET param_str == strip(replace(line, PR))
             loaded == json_loads(param_str)
         IN <<acc[1], IF loaded.t = "JSONDecodeError" THEN acc[2] ELSE loaded>>
    ELSE acc

\* one iteration of the loop over the lines: acc = <<tool_name, parameters>>
ParseLine(acc, line) ==
    IF startswith(line, TC)
    THEN <<Str(strip(replace(line, TC))), acc[2]>>
    ELSE IF startswith(line, PR)
    THEN LET param_str == strip(replace(line, PR))
             loaded == json_loads(param_str)
         IN <<acc[1], IF loaded.t = "JSONDecodeError" THEN EmptyDict ELSE loaded>>
    ELSE acc

RECURSIVE ParseLines(_, _)
ParseLines(acc, lines) ==
    IF lines = <<>> THEN acc
    ELSE ParseLines(ParseLine(acc, Head(lines)), Tail(lines))

\* returns <<tool_name, parameters>>
parse_tool_call(response) ==
    LET lines == split(strip(response))
        acc == ParseLines(<<None, None>>, lines)
        tool_name == acc[1]
        parameters == acc[2]
    IN IF Truthy(tool_name)
       THEN <<tool_name, IF Truthy(parameters) THEN parameters ELSE EmptyDict>>
       ELSE <<None, None>>

(* ---------------------------- ToolRegistry ---------------------------- *)
T_TIME == <<"get_current_time">>
T_CALC == <<"calculate">>
T_SEARCH == <<"search_web">>
T_WEATHER == <<"get_weather">>
T_SUMMARY == <<"create_summary">>
T_UNKNOWN == <<"no_such_tool">>

\* names bound by _register_default_tools
RegisteredTools == {T_TIME, T_CALC, T_SEARCH, T_WEATHER, T_SUMMARY}

AllowedChars ==
    {"0", "1", "2", "3", "4", "5", "6", "7", "8", "9",
     "+", "-", "*", "/", "(", ")", "%", ".", " "}

INVALID_CHARS == <<"Error: Invalid characters in expression">>
CALC_ERROR == <<"Calculation error:">>
TOOL_ERROR == <<"Error executing tool:">>
TIME_TEXT == <<"<day>, <date time> (<tz>)">>

(* eval(expression, {"__builtins__": {}}, {}): Python's evaluator, computed
   for expressions of decimal integers, unary and binary + and -, the
   operator % and blanks.  The outcome is [t |-> "value", v |-> n] or
   [t |-> "raise", e |-> the exception class]. *)
DigitChars == {"0", "1", "2", "3", "4", "5", "6", "7", "8", "9"}
OperatorChars == {"+", "-", "%"}
DigitValue(c) == CHOOSE d \in 0..9 : ToString(d) = c

Value(n) == [t |-> "value", v |-> n]
Raise(e) == [t |-> "raise", e |-> e]

\* the value of a run of digits
RECURSIVE Decimal(_)
Decimal(ds) ==
    IF ds = <<>> THEN 0
    ELSE 10 * Decimal(SubSeq(ds, 1, Len(ds) - 1)) + DigitValue(ds[Len(ds)])

\* length of the run of digits at the head of s
RECURSIVE DigitRun(_)
DigitRun(s) ==
    IF s # <<>> /\ s[1] \in DigitChars THEN 1 + DigitRun(Tail(s)) ELSE 0

\* the tokens of s: numbers and operators; <<"error">> as the last token
\* when a literal has a leading zero or a character is no token
RECURSIVE Tokenize(_)
Tokenize(s) ==
    IF s = <<>> THEN <<>>
    ELSE IF s[1] = SP THEN Tokenize(Tail(s))
    ELSE IF s[1] \in DigitChars
    THEN LET n == DigitRun(s)
             ds == SubSeq(s, 1, n)
         IN IF n > 1 /\ ds[1] = "0" /\ \E k \in 1..n : ds[k] # "0"
            THEN <<[k |-> "error"]>>
            ELSE <<[k |-> "num", v |-> Decimal(ds)]>>
                 \o Tokenize(SubSeq(s, n + 1, Len(s)))
    ELSE IF s[1] \in OperatorChars
    THEN <<[k |-> "op", v |-> s[1]]>> \o Tokenize(Tail(s))
    ELSE <<[k |-> "error"]>>

\* Python's %: the result takes the sign of the divisor
PyMod(a, b) == IF b > 0 THEN a % b ELSE -((-a) % (-b))

\* a parse result: the value so far, whether a division by zero was met,
\* and the tokens left; Bad when the tokens are no expression
Parsed(v, zero, rest) == [ok |-> TRUE, v |-> v, zero |-> zero, rest |-> rest]
Bad == [ok |-> FALSE]

IsOp(ts, ops) == ts # <<>> /\ ts[1].k = "op" /\ ts[1].v \in ops

\* body(value) with value computed once, as a local name is in Python
With(value, body(_)) == CHOOSE r \in {body(x) : x \in {value}} : TRUE

\* factor: ("+" | "-") factor | NUMBER
RECURSIVE ParseFactor(_)
ParseFactor(ts) ==
    IF ts = <<>> THEN Bad
    ELSE IF ts[1].k = "num" THEN Parsed(ts[1].v, FALSE, Tail(ts))
    ELSE IF IsOp(ts, {"+", "-"})
    THEN With(ParseFactor(Tail(ts)), LAMBDA f :
             IF ~f.ok THEN Bad
             ELSE Parsed(IF ts[1].v = "-" THEN -f.v ELSE f.v, f.zero, f.rest))
    ELSE Bad

\* term: factor ("%" factor)*, left to right
RECURSIVE TermRest(_)
TermRest(parsed) ==
    With(parsed, LAMBDA left :
        IF ~left.ok THEN Bad
        ELSE IF IsOp(left.rest, {"%"})
        THEN With(ParseFactor(Tail(left.rest)), LAMBDA f :
                 IF ~f.ok THEN Bad
                 ELSE IF left.zero \/ f.zero \/ f.v = 0
                 THEN TermRest(Parsed(0, TRUE, f.rest))
                 ELSE TermRest(Parsed(PyMod(left.v, f.v), FALSE, f.rest)))
        ELSE left)

ParseTerm(ts) == TermRest(ParseFactor(ts))

\* sum: term (("+" | "-") term)*, left to right
RECURSIVE SumRest(_)
SumRest(parsed) ==
    With(parsed, LAMBDA left :
        IF ~left.ok THEN Bad
        ELSE IF IsOp(left.rest, {"+", "-"})
        THEN With(ParseTerm(Tail(left.rest)), LAMBDA r :
                 IF ~r.ok THEN Bad
                 ELSE SumRest(Parsed(IF left.rest[1].v = "+"
                                     THEN left.v + r.v
                                     ELSE left.v - r.v,
                                     left.zero \/ r.zero, r.rest)))
        ELSE left)

ParseSum(ts) == SumRest(ParseTerm(ts))

\* the source is compiled as a whole before anything is evaluated: a
\* syntax error anywhere comes before a division by zero
eval(expression) ==
    With(Tokenize(expression), LAMBDA ts :
        IF ts # <<>> /\ ts[Len(ts)].k = "error" THEN Raise("SyntaxError")
        ELSE With(ParseSum(ts), LAMBDA r :
                 IF ~r.ok \/ r.rest # <<>> THEN Raise("SyntaxError")
                 ELSE IF r.zero THEN Raise("ZeroDivisionError")
                 ELSE Value(r.v)))

\* str(result) of an integer, one character per token
RECURSIVE DigitsOf(_)
DigitsOf(n) ==
    IF n < 10 THEN <<ToString(n)>>
    ELSE Append(DigitsOf(n \div 10), ToString(n % 10))

str(n) == IF n < 0 THEN <<"-">> \o DigitsOf(-n) ELSE DigitsOf(n)

\* a calculate without the character filter
calculate_run_Unfiltered(expression) ==
    With(eval(expression), LAMBDA result :
        IF result.t = "raise"
        THEN [value |-> CALC_ERROR \o <<result.e>>, evaluated |-> TRUE]
        ELSE [value |-> str(result.v), evaluated |-> TRUE])

\* the body of calculate: the text returned, and whether eval() was reached
calculate_run(expression) ==
    IF \E i \in 1..Len(expression) : expression[i] \notin AllowedChars
    THEN [value |-> INVALID_CHARS, evaluated |-> FALSE]
    ELSE With(eval(expression), LAMBDA result :
             IF result.t = "raise"
             THEN [value |-> CALC_ERROR \o <<result.e>>, evaluated |-> TRUE]
             ELSE [value |-> str(result.v), evaluated |-> TRUE])

calculate(expression) == calculate_run(expression).value

\* text[:n]: the first n characters, or all but the last -n when n < 0
Slice(text, n) ==
    LET stop == IF n >= 0 THEN n ELSE Len(text) + n
    IN SubSeq(text, 1, IF stop > Len(text) THEN Len(text)
                       ELSE IF stop < 0 THEN 0 ELSE stop)

\* s.rsplit(' ', 1)[0]: s up to its last space, all of s when it has none
rsplit_head(s) ==
    IF \E i \in 1..Len(s) : s[i] = SP
    THEN LET i == CHOOSE k \in 1..Len(s) :
                      s[k] = SP /\ \A j \in (k + 1)..Len(s) : s[j] # SP
         IN SubSeq(s, 1, i - 1)
    ELSE s

ELLIPSIS == <<".", ".", ".">>
DEFAULT_MAX_LENGTH == 100

\* a summary that truncates without going back to a space
create_summary_NoCut(text, max_length) ==
    IF Len(text) <= max_length THEN text
    ELSE Slice(text, max_length) \o ELLIPSIS

create_summary(text, max_length) ==
    IF Len(text) <= max_length THEN text
    ELSE rsplit_head(Slice(text, max_length)) \o ELLIPSIS

\* parameter mappings of the other handlers; an integer is tagged
Num(n) == [t |-> "int", v |-> n]
LocationDict(location) ==
    [t |-> "dict", keys |-> {"location"}, location |-> location]
QueryDict(query) == [t |-> "dict", keys |-> {"query"}, query |-> query]
TextDict(text) == [t |-> "dict", keys |-> {"text"}, text |-> text]
SummaryDict(text, max_length) ==
    [t |-> "dict", keys |-> {"text", "max_length"}, text |-> text,
     max_length |-> max_length]

WEATHER_TEXT(location) ==
    <<"[Simulated weather for ">> \o location \o <<"] ...">>
\* search_web returns text whatever the network does
SEARCH_TEXT == <<"<results, or a search failure text>">>

\* tool(**parameters): the handler's return value, or [t |-> "raise"] when
\* the call raises (parameters is not a mapping, its keys do not match the
\* handler's signature, or the handler itself raises)
CallTool(name, parameters) ==
    IF parameters.t # "dict" THEN [t |-> "raise"]
    ELSE CASE name = T_TIME ->
                  IF parameters.keys = {} THEN Str(TIME_TEXT) ELSE [t |-> "raise"]
           [] name = T_CALC ->
                  IF parameters.keys = {"expression"}
                  THEN Str(calculate(parameters.expression))
                  ELSE [t |-> "raise"]
           [] name = T_SEARCH ->
                  IF parameters.keys \in {{"query"}, {"query", "max_results"}}
                  THEN Str(SEARCH_TEXT)
                  ELSE [t |-> "raise"]
           [] name = T_WEATHER ->
                  IF parameters.keys = {"location"}
                  THEN Str(WEATHER_TEXT(parameters.location))
                  ELSE [t |-> "raise"]
           [] name = T_SUMMARY ->
                  IF parameters.keys = {"text"}
                  THEN Str(create_summary(parameters.text,
                                          DEFAULT_MAX_LENGTH))
                  ELSE IF parameters.keys = {"text", "max_length"}
                          /\ parameters.max_length.t = "int"
                  THEN Str(create_summary(parameters.text,
                                          parameters.max_length.v))
                  ELSE [t |-> "raise"]
           [] OTHER -> [t |-> "raise"]

\* an execute that lets the handler's exception through
execute_Unguarded(name, parameters) ==
    IF name \notin RegisteredTools
    THEN [t |-> "ValueError"]
    ELSE CallTool(name, parameters)

\* ToolRegistry.execute: [t |-> "ValueError"] when the name is not
\* registered, else the handler's value or the error text
execute(name, parameters) ==
    IF name \notin RegisteredTools
    THEN [t |-> "ValueError"]
    ELSE LET r == CallTool(name, parameters)
         IN IF r.t = "raise" THEN Str(TOOL_ERROR) ELSE r

(* ------------------------------- state -------------------------------- *)
VARIABLES
    impl,                 \* the agent class the process runs
    conversations,        \* AIAgent.conversations: id -> AgentState
    graph_conversations,  \* LangGraphAgent.conversations: id -> message list
    turns,                \* per request: position and locals of the handler
    uuid_count,           \* number of uuid4() values drawn so far
    admin_ops,            \* number of clear / history requests served
    last_op,              \* the response of the step just taken, when it
                          \* was a clear or history request
    call                  \* the library function called directly by the step
                          \* just taken, with its arguments and its outcome

vars == <<impl, conversations, graph_conversations, turns, uuid_count,
          admin_ops, last_op, call>>

Turns == 1..NumTurns

\* conversation_id of a request: None, "" or a client-chosen token; a client
\* may also send back an id the server generated earlier
NONE_ID == "<None>"
ClientIds == {"a"}
uuid4(n) == ToString(n)
RequestIds == {NONE_ID, ""} \cup ClientIds \cup {uuid4(n) : n \in 1..uuid_count}

\* truthiness of an Optional[str] conversation id
IdTruthy(id) == id \notin {NONE_ID, ""}

\* the user message of request t
UserMessage(t) == <<"user-message-" , ToString(t)>>

(* ----------------------------- the model ------------------------------ *)
R_PLAIN == <<"hello">>
R_TIME == <<TC, SP, "get_current_time">>
R_CALC == <<TC, SP, "calculate", NL, PR, SP, JSON_EXPR>>
R_UNKNOWN == <<TC, SP, "no_such_tool">>
R_BADJSON == <<TC, SP, "get_current_time", NL, PR, SP, JSON_BAD>>
R_LIST == <<TC, SP, "get_current_time", NL, PR, SP, JSON_LIST>>

\* what ollama.chat may do: raise, or reply with one of these texts
Replies == {R_PLAIN, R_TIME, R_CALC, R_UNKNOWN, R_BADJSON, R_LIST}
Fail == [t |-> "fail"]
ModelOutcomes == {Fail} \cup {Str(r) : r \in Replies}
\* outcomes of the second model call of a turn: failure, prose, or a reply
\* that again has tool-call syntax
SecondOutcomes == {Fail, Str(R_PLAIN), Str(R_TIME)}

\* chunks of a model stream
Chunks == {<<"hi">>, <<TC, SP, "get_current_time">>}

(* --------------------------- AIAgent (core) --------------------------- *)
Message(role, content) == [role |-> role, content |-> content]

NewAgentState(id) ==
    [conversation_id |-> id, messages |-> <<>>, tool_calls |-> <<>>]

\* a get-or-create that forgets the lookup and always stores a new state
_get_or_create_conversation_Reset(store, conversation_id, n) ==
    LET new_id == IF IdTruthy(conversation_id)
                  THEN conversation_id ELSE uuid4(n + 1)
    IN [id |-> new_id,
        store |-> [k \in DOMAIN store \cup {new_id} |->
                      IF k = new_id THEN NewAgentState(new_id) ELSE store[k]],
        n |-> IF IdTruthy(conversation_id) THEN n ELSE n + 1]

\* AIAgent._get_or_create_conversation on store `store` when n uuids have
\* been drawn: the id of the returned state, the store and the uuid count
\* after the call
_get_or_create_conversation(store, conversation_id, n) ==
    IF IdTruthy(conversation_id) /\ conversation_id \in DOMAIN store
    THEN [id |-> conversation_id, store |-> store, n |-> n]
    ELSE LET new_id == IF IdTruthy(conversation_id)
                       THEN conversation_id ELSE uuid4(n + 1)
         IN [id |-> new_id,
             store |-> [k \in DOMAIN store \cup {new_id} |->
                           IF k = new_id THEN NewAgentState(new_id)
                           ELSE store[k]],
             n |-> IF IdTruthy(conversation_id) THEN n ELSE n + 1]

\* an append that loses the assistant's messages
_add_message_Drop(state, role, content) ==
    IF role = "assistant" THEN state
    ELSE [state EXCEPT !.messages = Append(@, Message(role, content))]

_add_message(state, role, content) ==
    [state EXCEPT !.messages = Append(@, Message(role, content))]

ToolCall(tool_name, parameters, result) ==
    [tool_name |-> tool_name, parameters |-> parameters, result |-> result]

\* a bookkeeping step that forgets to record the invocation
_add_tool_call_Skip(state, tool_name, parameters, result) == state

_add_tool_call(state, tool_name, parameters, result) ==
    [state EXCEPT !.tool_calls =
        Append(@, ToolCall(tool_name, parameters, result))]

SYSTEM_PROMPT == <<"SYSTEM_PROMPT">>
TOOL_PROMPT == <<"TOOL_USAGE_PROMPT">>

\* a window taken from the front: state.messages[:10]
LastN_First(seq, n) ==
    IF Len(seq) <= n THEN seq ELSE SubSeq(seq, 1, n)

\* state.messages[-10:]
LastN(seq, n) ==
    IF Len(seq) <= n THEN seq ELSE SubSeq(seq, Len(seq) - n + 1, Len(seq))

_prepare_messages(state, use_tools) ==
    <<Message("system",
              IF use_tools THEN SYSTEM_PROMPT \o <<NL, NL>> \o TOOL_PROMPT
              ELSE SYSTEM_PROMPT)>>
    \o LastN(state.messages, WINDOW)

\* the synthetic user turn that carries the tool result
ToolResultText(tool_name, tool_result) ==
    <<"Tool Result (">> \o tool_name \o <<"): ">> \o tool_result
    \o <<NL, NL, "Respond naturally using this information.">>

ERROR_RESPONSE == <<"Error generating response:">>

\* what a chat turn hands back: a returned dict or an exception that left it
Returned(response, id, error, message_count, tool_calls) ==
    [status |-> "returned", response |-> response, conversation_id |-> id,
     error |-> error, message_count |-> message_count,
     tool_calls |-> tool_calls]
Raised(id) == [status |-> "raised", conversation_id |-> id]
NoResult == [status |-> "none"]

ErrorResult(id) == Returned(ERROR_RESPONSE, id, TRUE, -1, -1)

(* ------------------------------ requests ------------------------------ *)
\* locals of a handler that has not started
IdleTurn ==
    [pc |-> "idle", kind |-> "none", cid |-> NONE_ID,
     prompt |-> <<>>, model_calls |-> 0, tool_execs |-> 0, parses |-> 0,
     recorded |-> 0, replies |-> <<>>, chunks |-> <<>>, full_response |-> <<>>,
     state |-> <<>>, msgs_before |-> 0, calls_before |-> 0,
     result |-> NoResult]

\* AIAgent.chat has no await: once entered it runs to its return without
\* another handler running.  A stream generator runs without interruption
\* from its start to its first yield.
CanRun(t) == \A u \in Turns \ {t} : turns[u].pc # "starting"

\* requests are numbered in arrival order
Arrives(t) ==
    /\ turns[t].pc = "idle"
    /\ \A u \in Turns : u < t => turns[u].pc # "idle"
    /\ CanRun(t)

CanStream ==
    Cardinality({u \in Turns : turns[u].kind = "stream"}) < MaxStreams

Op(name, id, value, status) ==
    [op |-> name, id |-> id, value |-> value, status |-> status]

\* no library function was called directly by the step just taken
NoCall == [fn |-> "none"]

\* the step just taken was not a clear or history request
NoOp == Op("none", NONE_ID, FALSE, 0)

\* The body of AIAgent.chat after the user message is appended, for the
\* outcomes `first` and `second` of the two model calls: the final state,
\* the result, the last prompt sent and what was done on the way.
ChatBody(state, first, second) ==
    LET id == state.conversation_id
        messages == _prepare_messages(state, TRUE)
        base == [state |-> state, result |-> ErrorResult(id),
                 prompt |-> messages, model_calls |-> 1, tool_execs |-> 0,
                 parses |-> 0, recorded |-> 0, replies |-> <<first>>]
    IN
    IF first.t = "fail" THEN base
    ELSE
      LET assistant_message == first.v
          parsed == parse_tool_call(assistant_message)
          tool_name == parsed[1]
          parameters == parsed[2]
          Final(st, text, b) ==
              LET st2 == _add_message(st, "assistant", text)
              IN [b EXCEPT !.state = st2,
                           !.result = Returned(text, id, FALSE,
                                               Len(st2.messages),
                                               Len(st2.tool_calls))]
      IN
      IF ~Truthy(tool_name)
      THEN Final(state, assistant_message, [base EXCEPT !.parses = 1])
      ELSE
        LET tool_result == execute(tool_name.v, parameters)
        IN
        IF tool_result.t = "ValueError"
        THEN [base EXCEPT !.parses = 1]
        ELSE IF parameters.t # "dict"
        \* ToolCall(parameters=...) rejects a value that is not a mapping
        THEN [base EXCEPT !.parses = 1, !.tool_execs = 1]
        ELSE
          LET st2 == _add_tool_call(state, tool_name.v, parameters,
                                    tool_result.v)
              messages2 == messages \o
                  <<Message("assistant", assistant_message),
                    Message("user", ToolResultText(tool_name.v, tool_result.v))>>
              b2 == [base EXCEPT !.state = st2, !.prompt = messages2,
                                 !.model_calls = 2, !.tool_execs = 1,
                                 !.parses = 1, !.recorded = 1,
                                 !.replies = <<first, second>>]
          IN IF second.t = "fail" THEN b2
             ELSE Final(st2, second.v, b2)

\* AIAgent.chat(user_message, conversation_id)
Chat(t, conversation_id, user_message, first, second) ==
    /\ impl = "AIAgent"
    /\ Arrives(t)
    /\ \E got \in {_get_or_create_conversation(conversations, conversation_id,
                                               uuid_count)} :
         \E run \in {ChatBody(_add_message(got.store[got.id], "user",
                                           user_message), first, second)} :
          /\ conversations' = [got.store EXCEPT ![got.id] = run.state]
          /\ uuid_count' = got.n
          /\ turns' = [turns EXCEPT ![t] =
                 [IdleTurn EXCEPT !.pc = "done", !.kind = "chat",
                      !.cid = got.id,
                      !.prompt = run.prompt, !.model_calls = run.model_calls,
                      !.tool_execs = run.tool_execs, !.parses = run.parses,
                      !.recorded = run.recorded, !.replies = run.replies,
                      !.msgs_before = Len(got.store[got.id].messages),
                      !.calls_before = Len(got.store[got.id].tool_calls),
                      !.result = run.result]]
    /\ UNCHANGED <<impl, graph_conversations, admin_ops, call>>
    /\ last_op' = NoOp

STREAM_ERROR == <<"Error:">>

\* AIAgent.chat_stream up to the creation of the model stream
ChatStreamStart(t, conversation_id) ==
    /\ impl = "AIAgent"
    /\ Arrives(t)
    /\ CanStream
    /\ LET got == _get_or_create_conversation(conversations, conversation_id,
                                              uuid_count)
           state0 == got.store[got.id]
           state1 == _add_message(state0, "user", UserMessage(t))
       IN /\ conversations' = [got.store EXCEPT ![got.id] = state1]
          /\ uuid_count' = got.n
          /\ turns' = [turns EXCEPT ![t] =
                 [IdleTurn EXCEPT !.pc = "starting", !.kind = "stream",
                      !.cid = got.id,
                      !.prompt = _prepare_messages(state1, FALSE),
                      !.model_calls = 1,
                      !.msgs_before = Len(state0.messages),
                      !.calls_before = Len(state0.tool_calls)]]
    /\ UNCHANGED <<impl, graph_conversations, admin_ops, call>>
    /\ last_op' = NoOp

InStream(t) ==
    /\ impl = "AIAgent"
    /\ turns[t].pc \in {"starting", "streaming"}
    /\ CanRun(t)

\* one iteration of the loop over the stream: accumulate and yield a chunk
StreamChunk(t, content) ==
    /\ InStream(t)
    /\ Len(turns[t].chunks) < MaxChunks
    /\ turns' = [turns EXCEPT ![t].pc = "streaming",
                              ![t].full_response = @ \o content,
                              ![t].chunks = Append(@, content)]
    /\ UNCHANGED <<impl, conversations, graph_conversations, uuid_count,
                   admin_ops, call>>
    /\ last_op' = NoOp

\* the stream ends: the accumulated text becomes the assistant message
StreamEnd(t) ==
    /\ InStream(t)
    /\ conversations' = [conversations EXCEPT ![turns[t].cid] =
           _add_message(@, "assistant", turns[t].full_response)]
    /\ turns' = [turns EXCEPT ![t].pc = "done",
                              ![t].result = [status |-> "stream_end"]]
    /\ UNCHANGED <<impl, graph_conversations, uuid_count, admin_ops, call>>
    /\ last_op' = NoOp

\* ollama raises when the stream is created or while it is iterated
StreamFail(t) ==
    /\ InStream(t)
    /\ turns' = [turns EXCEPT ![t].pc = "done",
                              ![t].chunks = Append(@, STREAM_ERROR),
                              ![t].result = [status |-> "stream_error"]]
    /\ UNCHANGED <<impl, conversations, graph_conversations, uuid_count,
                   admin_ops, call>>
    /\ last_op' = NoOp

(* --------------------------- LangGraphAgent --------------------------- *)
HumanMessage(content) ==
    [type |-> "human", content |-> content, tool_calls |-> <<>>]
AIMessage(content, tool_calls) ==
    [type |-> "ai", content |-> content, tool_calls |-> tool_calls]
ToolMessage(content) ==
    [type |-> "tool", content |-> content, tool_calls |-> <<>>]

\* TOOLS bound to the model and to the tool node
GraphTools == {T_TIME, T_CALC, T_SEARCH}

\* what self.model.invoke may do: raise, or reply with an AIMessage that
\* carries zero or more tool calls
GraphReplies ==
    {AIMessage(R_PLAIN, <<>>), AIMessage(<<>>, <<T_TIME>>)}

\* should_continue
should_continue(messages) ==
    IF messages[Len(messages)].tool_calls # <<>> THEN "continue" ELSE "end"

\* the tool node: one ToolMessage per tool call of the last message; a name
\* that is not among TOOLS yields an error message and runs nothing
RECURSIVE ToolMessages(_)
ToolMessages(calls) ==
    IF calls = <<>> THEN <<>>
    ELSE <<ToolMessage(IF Head(calls) \in GraphTools
                       THEN <<"result of ">> \o Head(calls)
                       ELSE <<"Error: not a valid tool">>)>>
         \o ToolMessages(Tail(calls))

RECURSIVE CountValid(_)
CountValid(calls) ==
    IF calls = <<>> THEN 0
    ELSE (IF Head(calls) \in GraphTools THEN 1 ELSE 0) + CountValid(Tail(calls))

RECURSIVE CountToolMessages(_)
CountToolMessages(messages) ==
    IF messages = <<>> THEN 0
    ELSE (IF Head(messages).type = "tool" THEN 1 ELSE 0)
         + CountToolMessages(Tail(messages))

\* The head of LangGraphAgent.chat: draw an id when none is given and add
\* an empty list for an id the store does not have.  Same shape of result
\* as _get_or_create_conversation.
graph_get_or_create(store, conversation_id, n) ==
    LET fresh == ~IdTruthy(conversation_id)
        id == IF fresh THEN uuid4(n + 1) ELSE conversation_id
    IN [id |-> id,
        store |-> IF id \in DOMAIN store THEN store
                  ELSE [k \in DOMAIN store \cup {id} |->
                           IF k = id THEN <<>> ELSE store[k]],
        n |-> IF fresh THEN n + 1 ELSE n]

\* a store update that drops every other conversation
StoreFinal_Only(store, id, messages) == [k \in {id} |-> messages]

\* self.conversations[conversation_id] = final_state['messages']
StoreFinal(store, id, messages) ==
    [k \in DOMAIN store \cup {id} |-> IF k = id THEN messages ELSE store[k]]

\* LangGraphAgent.chat up to the start of the graph run: the user message is
\* appended to the stored list itself, the graph runs on a copy of it
GraphStart(t, conversation_id, kind) ==
    /\ impl = "LangGraphAgent"
    /\ Arrives(t)
    /\ \E got \in {graph_get_or_create(graph_conversations, conversation_id,
                                       uuid_count)} :
         LET current_messages ==
                 Append(got.store[got.id], HumanMessage(UserMessage(t)))
         IN /\ graph_conversations' =
                   [got.store EXCEPT ![got.id] = current_messages]
            /\ uuid_count' = got.n
            /\ turns' = [turns EXCEPT ![t] =
                   [IdleTurn EXCEPT !.pc = "agent", !.kind = kind,
                        !.cid = got.id,
                        !.state = current_messages,
                        !.msgs_before = Len(got.store[got.id]),
                        !.calls_before = CountToolMessages(got.store[got.id])]]
    /\ UNCHANGED <<impl, conversations, admin_ops, call>>
    /\ last_op' = NoOp

GraphChat(t, conversation_id) == GraphStart(t, conversation_id, "chat")

\* LangGraphAgent.chat_stream: a wrapper that awaits chat and yields its
\* response as the only chunk
GraphChatStream(t, conversation_id) ==
    /\ CanStream
    /\ GraphStart(t, conversation_id, "stream")

\* tool rounds started so far by turns 1..n
RECURSIVE ToolRounds(_)
ToolRounds(n) ==
    IF n = 0 THEN 0
    ELSE ToolRounds(n - 1) +
         Cardinality({i \in 1..Len(turns[n].replies) :
                         /\ turns[n].replies[i] # Fail
                         /\ turns[n].replies[i].tool_calls # <<>>})

\* node "agent" (call_model), the conditional edge, and - when the edge
\* leads to END - the rest of chat: store the final messages and return
GraphCallModel(t, outcome) ==
    /\ impl = "LangGraphAgent"
    /\ turns[t].pc = "agent"
    /\ outcome # Fail /\ outcome.tool_calls # <<>>
           => ToolRounds(NumTurns) < MaxToolRounds
    /\ IF outcome = Fail
       THEN /\ turns' = [turns EXCEPT ![t].pc = "done",
                                      ![t].model_calls = @ + 1,
                                      ![t].replies = Append(@, outcome),
                                      ![t].result = Raised(turns[t].cid)]
            /\ UNCHANGED graph_conversations
       ELSE LET messages == Append(turns[t].state, outcome)
            IN IF should_continue(messages) = "continue"
               THEN /\ turns' = [turns EXCEPT ![t].pc = "tools",
                                              ![t].model_calls = @ + 1,
                                              ![t].replies = Append(@, outcome),
                                              ![t].state = messages]
                    /\ UNCHANGED graph_conversations
               ELSE LET id == turns[t].cid
                        result == Returned(outcome.content, id, FALSE, -1,
                                           CountToolMessages(messages))
                    IN /\ graph_conversations' =
                              StoreFinal(graph_conversations, id, messages)
                       /\ turns' = [turns EXCEPT
                              ![t].pc = "done",
                              ![t].model_calls = @ + 1,
                              ![t].replies = Append(@, outcome),
                              ![t].state = messages,
                              ![t].chunks = IF turns[t].kind = "stream"
                                            THEN <<outcome.content>> ELSE @,
                              ![t].result = result]
    /\ UNCHANGED <<impl, conversations, uuid_count, admin_ops, call>>
    /\ last_op' = NoOp

\* node "tools" and the edge back to "agent"
GraphToolNode(t) ==
    /\ impl = "LangGraphAgent"
    /\ turns[t].pc = "tools"
    /\ LET calls == turns[t].state[Len(turns[t].state)].tool_calls
       IN turns' = [turns EXCEPT ![t].pc = "agent",
                                 ![t].state = @ \o ToolMessages(calls),
                                 ![t].tool_execs = @ + CountValid(calls),
                                 ![t].recorded = @ + Len(calls)]
    /\ UNCHANGED <<impl, conversations, graph_conversations, uuid_count,
                   admin_ops, call>>
    /\ last_op' = NoOp

\* ids a client may name in a clear or history request: its own id and the
\* first generated id (unknown to the store until a turn has drawn it)
AdminIds == ClientIds \cup {uuid4(1)}

\* a clear that reports success without deleting
clear_conversation_Keep(store, conversation_id) ==
    [store |-> store, value |-> conversation_id \in DOMAIN store]

\* LangGraphAgent.clear_conversation, behind DELETE /chat/clear/{id}
clear_conversation(store, conversation_id) ==
    IF conversation_id \in DOMAIN store
    THEN [store |-> [k \in DOMAIN store \ {conversation_id} |-> store[k]],
          value |-> TRUE]
    ELSE [store |-> store, value |-> FALSE]

\* a history that lists the tool messages as assistant turns
RECURSIVE HistoryOf_All(_)
HistoryOf_All(messages) ==
    IF messages = <<>> THEN <<>>
    ELSE LET m == Head(messages)
         IN <<[role |-> IF m.type = "human" THEN "user" ELSE "assistant",
               content |-> m.content]>>
            \o HistoryOf_All(Tail(messages))

RECURSIVE HistoryOf(_)
HistoryOf(messages) ==
    IF messages = <<>> THEN <<>>
    ELSE LET m == Head(messages)
         IN (IF m.type # "tool" /\ m.type \in {"human", "ai"}
             THEN <<[role |-> IF m.type = "human" THEN "user" ELSE "assistant",
                     content |-> m.content]>>
             ELSE <<>>)
            \o HistoryOf(Tail(messages))

\* LangGraphAgent.get_conversation_history, behind GET /chat/history/{id}
get_conversation_history(store, conversation_id) ==
    IF conversation_id \in DOMAIN store
    THEN [t |-> "list", v |-> HistoryOf(store[conversation_id])]
    ELSE None

\* main.py: the handlers turn a False / None return into HTTP 404
HTTP_OK == 200
HTTP_NOT_FOUND == 404
clear_endpoint(success) == IF success THEN HTTP_OK ELSE HTTP_NOT_FOUND
get_history_endpoint(history) ==
    IF history = None THEN HTTP_NOT_FOUND ELSE HTTP_OK

ClearConversation(conversation_id) ==
    /\ impl = "LangGraphAgent"
    /\ admin_ops < MaxAdminOps
    /\ admin_ops' = admin_ops + 1
    /\ LET r == clear_conversation(graph_conversations, conversation_id)
       IN /\ graph_conversations' = r.store
          /\ last_op' = Op("clear", conversation_id, r.value,
                            clear_endpoint(r.value))
    /\ UNCHANGED <<impl, conversations, turns, uuid_count, call>>

GetHistory(conversation_id) ==
    /\ impl = "LangGraphAgent"
    /\ admin_ops < MaxAdminOps
    /\ admin_ops' = admin_ops + 1
    /\ \E history \in {get_conversation_history(graph_conversations,
                                                 conversation_id)} :
           last_op' = Op("history", conversation_id, history,
                         get_history_endpoint(history))
    /\ UNCHANGED <<impl, conversations, graph_conversations, turns,
                   uuid_count, call>>

Init ==
    /\ impl \in {"AIAgent", "LangGraphAgent"}
    /\ conversations = <<>>
    /\ graph_conversations = <<>>
    /\ turns = [t \in Turns |-> IdleTurn]
    /\ uuid_count = 0
    /\ admin_ops = 0
    /\ last_op = NoOp
    /\ call = NoCall

Next ==
    \/ \E t \in Turns, c \in RequestIds, f \in ModelOutcomes, g \in SecondOutcomes :
           Chat(t, c, UserMessage(t), f, g)
    \/ \E t \in Turns, c \in RequestIds : GraphChat(t, c)
    \/ \E t \in Turns, o \in {Fail} \cup GraphReplies : GraphCallModel(t, o)
    \/ \E t \in Turns : GraphToolNode(t)
    \/ \E c \in AdminIds : ClearConversation(c)
    \/ \E c \in AdminIds : GetHistory(c)

Spec == Init /\ [][Next]_vars

\* the same program with streaming requests among the chat requests
StreamNext ==
    \/ Next
    \/ \E t \in Turns, c \in RequestIds : ChatStreamStart(t, c)
    \/ \E t \in Turns, c \in Chunks : StreamChunk(t, c)
    \/ \E t \in Turns : StreamEnd(t)
    \/ \E t \in Turns : StreamFail(t)
    \/ \E t \in Turns, c \in RequestIds : GraphChatStream(t, c)

SpecStream == Init /\ [][StreamNext]_vars

(* ----------------- long conversations: the prompt window --------------- *)
\* texts of the user messages of a long conversation
PromptTexts == {<<"m1">>, <<"m2">>}
PROMPT_ID == "a"

\* the response was delivered; the next request of the client arrives
NextRequest(t) ==
    /\ turns[t].pc = "done"
    /\ turns' = [turns EXCEPT ![t] = IdleTurn]
    /\ UNCHANGED <<impl, conversations, graph_conversations, uuid_count,
                   admin_ops, call>>
    /\ last_op' = NoOp

StoredMessages(id) ==
    IF id \in DOMAIN conversations THEN conversations[id].messages ELSE <<>>

\* serial turns on one conversation until it holds MaxMessages messages
PromptNext ==
    \/ \E m \in PromptTexts, f \in {Fail, Str(R_PLAIN)} :
           /\ Len(StoredMessages(PROMPT_ID)) < MaxMessages
           /\ Chat(1, PROMPT_ID, m, f, Fail)
    \/ NextRequest(1)

SpecPrompt == Init /\ [][PromptNext]_vars

(* ------------------- the library functions on their own ---------------- *)
\* "\n".join(lines)
RECURSIVE Join(_)
Join(lines) ==
    IF lines = <<>> THEN <<>>
    ELSE IF Len(lines) = 1 THEN lines[1]
    ELSE lines[1] \o <<NL>> \o Join(Tail(lines))

\* lines a model reply may hold
ReplyLines ==
    {<<TC, SP, "get_current_time">>,
     <<TC, "calculate", SP>>,
     <<TC>>,
     <<TC, SP, "get_", TC, "weather">>,
     <<PR, SP, JSON_EXPR>>,
     <<PR, JSON_BAD>>,
     <<PR, SP, JSON_NULL>>,
     <<PR, JSON_EXPR, PR>>,
     <<"The", SP, "answer">>,
     <<SP, TC, SP, "search_web">>}

\* model replies of one to MaxLines lines
Responses ==
    {Join(ls) : ls \in UNION {[1..k -> ReplyLines] : k \in 1..MaxLines}}

\* a call of function fn on args that has not run yet
Pending(fn, args) == [fn |-> fn, args |-> args, done |-> FALSE, ret |-> None]

\* characters of the expressions: digits, operators and a blank, which
\* pass the filter of calculate, and a letter, which does not
ExprChars == {"0", "1", "+", "-", "%", SP, "a"}

\* expressions of at most MaxExprLen characters, the empty one included
Expressions == UNION {[1..k -> ExprChars] : k \in 0..MaxExprLen}

\* characters of the texts: a letter, the space, and a newline as the
\* whitespace that is no space
TextChars == {"a", SP, NL}
EXAMPLE_TEXT == <<"a", SP, "b", SP, "c", SP, "d", SP, "e">>

Texts == UNION {[1..k -> TextChars] : k \in 0..MaxTextLen} \cup {EXAMPLE_TEXT}
MaxLengths == (-2)..(MaxTextLen + 1)

\* tool names and parameter mappings handed to execute
ExecuteNames == RegisteredTools \cup {T_UNKNOWN}
ExecuteParameters ==
    {EmptyDict, List,
     ExprDict(EXPR_2_PLUS_2), ExprDict(<<"1", "%", "0">>),
     ExprDict(<<"o", "s">>),
     LocationDict(<<"Paris">>), QueryDict(<<"news">>),
     TextDict(EXAMPLE_TEXT), SummaryDict(EXAMPLE_TEXT, Num(3)),
     SummaryDict(EXAMPLE_TEXT, Str(<<"3">>))}

ToolCalls ==
    {Pending("parse_tool_call", <<r>>) : r \in Responses}
        \cup {Pending("calculate", <<e>>) : e \in Expressions}
        \cup {Pending("create_summary", <<x, n>>) :
                  x \in Texts, n \in MaxLengths}
        \cup {Pending("execute", <<name, p>>) :
                  name \in ExecuteNames, p \in ExecuteParameters}

\* the step: call the function, keep what it returns
Returns(value) == call' = [call EXCEPT !.done = TRUE, !.ret = value]

Runs(fn) == call.fn = fn /\ ~call.done

ParseToolCall ==
    /\ Runs("parse_tool_call")
    /\ Returns(parse_tool_call(call.args[1]))
    /\ UNCHANGED <<impl, conversations, graph_conversations, turns,
                   uuid_count, admin_ops, last_op>>

Calculate ==
    /\ Runs("calculate")
    /\ Returns(calculate_run(call.args[1]))
    /\ UNCHANGED <<impl, conversations, graph_conversations, turns,
                   uuid_count, admin_ops, last_op>>

CreateSummary ==
    /\ Runs("create_summary")
    /\ Returns(create_summary(call.args[1], call.args[2]))
    /\ UNCHANGED <<impl, conversations, graph_conversations, turns,
                   uuid_count, admin_ops, last_op>>

Execute ==
    /\ Runs("execute")
    /\ Returns(execute(call.args[1], call.args[2]))
    /\ UNCHANGED <<impl, conversations, graph_conversations, turns,
                   uuid_count, admin_ops, last_op>>

InitTools ==
    /\ impl = "AIAgent"
    /\ conversations = <<>>
    /\ graph_conversations = <<>>
    /\ turns = [t \in Turns |-> IdleTurn]
    /\ uuid_count = 0
    /\ admin_ops = 0
    /\ last_op = NoOp
    /\ call \in ToolCalls

ToolsNext ==
    \/ ParseToolCall
    \/ Calculate
    \/ CreateSummary
    \/ Execute

SpecTools == InitTools /\ [][ToolsNext]_vars

(* ============================== properties ============================= *)
IsPrefix(a, b) == Len(a) <= Len(b) /\ SubSeq(b, 1, Len(a)) = a

Done(t) == turns[t].pc = "done"

\* some model call of turn t raised
ModelFailed(t) ==
    /\ Done(t)
    /\ \E i \in 1..Len(turns[t].replies) : turns[t].replies[i] = Fail

RECURSIVE Concat(_)
Concat(chunks) ==
    IF chunks = <<>> THEN <<>> ELSE Head(chunks) \o Concat(Tail(chunks))

(* ---------------------------------------------------------------------- *)
\* C1: in every turn at most one tool is executed: a first reply with a
\* tool call runs the tool once and leads to a second model call; the second
\* reply is never parsed for a tool call and never runs a tool.
C1_AtMostOneToolPerTurn ==
    \A t \in Turns :
        /\ turns[t].tool_execs <= 1
        /\ turns[t].parses <= 1
        /\ turns[t].model_calls <= 2

(* ---------------------------------------------------------------------- *)
\* what C2 says of the store after a failed turn t: the user message of the
\* turn is in the history, the turn appended no assistant message, and the
\* tool invocation it recorded is kept
FailedTurnStore(t) ==
    LET id == turns[t].cid
        k == turns[t].msgs_before
    IN IF impl = "AIAgent"
       THEN /\ id \in DOMAIN conversations
            /\ LET m == conversations[id].messages
               IN /\ Len(m) > k
                  /\ m[k + 1] = Message("user", UserMessage(t))
                  /\ Len(m) > k + 1 => m[k + 2].role = "user"
            /\ Len(conversations[id].tool_calls)
                   >= turns[t].calls_before + turns[t].recorded
       ELSE /\ id \in DOMAIN graph_conversations
            /\ LET m == graph_conversations[id]
               IN /\ Len(m) > k
                  /\ m[k + 1] = HumanMessage(UserMessage(t))
                  /\ Len(m) > k + 1 => m[k + 2].type = "human"
            /\ CountToolMessages(graph_conversations[id])
                   >= turns[t].calls_before + turns[t].recorded

\* C2: when the first or the second model call of a turn fails, the turn
\* returns a response with an error text and metadata error = true; the
\* user message is in the history, no assistant message was appended and
\* every append made before the failure is kept.
C2_ModelFailureIsSoftError ==
    \A t \in Turns :
        ModelFailed(t) =>
            /\ turns[t].result.status = "returned"
            /\ turns[t].result.error
            /\ turns[t].result.response = ERROR_RESPONSE
            /\ FailedTurnStore(t)

(* ---------------------------------------------------------------------- *)
\* C3: a chat turn always returns a structured result and never lets an
\* exception leave the turn, whatever the model and the tools do.
C3_TurnAlwaysReturns ==
    \A t \in Turns :
        Done(t) /\ turns[t].kind = "chat" =>
            /\ turns[t].result.status = "returned"
            /\ turns[t].result.conversation_id = turns[t].cid

(* ---------------------------------------------------------------------- *)
\* what get_or_create must do for request id c on store `store`: r is the
\* result of the call, Empty the empty conversation value of that store
GetOrCreateOk(store, r, c, n, present, Empty(_)) ==
    /\ (present /\ c \in DOMAIN store) =>
           /\ r.id = c
           /\ r.store = store
    /\ (present /\ c \notin DOMAIN store) =>
           /\ r.id = c
           /\ DOMAIN r.store = DOMAIN store \cup {c}
           /\ r.store[c] = Empty(c)
           /\ \A k \in DOMAIN store : r.store[k] = store[k]
    /\ ~present =>
           /\ r.id \notin DOMAIN store
           /\ r.id \notin {NONE_ID, ""}
           /\ DOMAIN r.store = DOMAIN store \cup {r.id}
           /\ Cardinality(DOMAIN r.store) = Cardinality(DOMAIN store) + 1
           /\ r.store[r.id] = Empty(r.id)
           /\ \A k \in DOMAIN store : r.store[k] = store[k]

EmptyList(id) == <<>>

\* C4 as stated: an id counts as present whenever one was passed (it is not
\* None); a present unknown id gets a state stored under exactly that id.
C4_PresentIdKeyed ==
    \A c \in RequestIds :
        /\ \A r \in {_get_or_create_conversation(conversations, c,
                                                uuid_count)} :
               GetOrCreateOk(conversations, r, c, uuid_count,
                             c # NONE_ID, NewAgentState)
        /\ \A r \in {graph_get_or_create(graph_conversations, c,
                                        uuid_count)} :
               GetOrCreateOk(graph_conversations, r, c, uuid_count,
                             c # NONE_ID, EmptyList)

\* C4 (amended): get_or_create with a non-empty id already in the store
\* returns the existing state unchanged and adds no entry; with a non-empty
\* id not in the store it creates an empty state under exactly that id; with
\* no id or with the empty string it creates an empty state under a freshly
\* generated id, so two such calls yield two distinct ids and two entries.
C4_GetOrCreate ==
    \A c \in RequestIds :
        /\ \A r \in {_get_or_create_conversation(conversations, c,
                                                uuid_count)} :
               GetOrCreateOk(conversations, r, c, uuid_count,
                             IdTruthy(c), NewAgentState)
        /\ \A r \in {graph_get_or_create(graph_conversations, c,
                                        uuid_count)} :
               GetOrCreateOk(graph_conversations, r, c, uuid_count,
                             IdTruthy(c), EmptyList)
        /\ ~IdTruthy(c) =>
             \A d \in {NONE_ID, ""} :
               /\ \A r1 \in {_get_or_create_conversation(conversations, c,
                                                             uuid_count)} :
                  \A r2 \in {_get_or_create_conversation(r1.store, d,
                                                          r1.n)} :
                     /\ r1.id # r2.id
                     /\ {r1.id, r2.id} \subseteq DOMAIN r2.store
                     /\ Cardinality(DOMAIN r2.store)
                            = Cardinality(DOMAIN conversations) + 2
               /\ \A r1 \in {graph_get_or_create(graph_conversations, c,
                                                     uuid_count)} :
                  \A r2 \in {graph_get_or_create(r1.store, d, r1.n)} :
                     /\ r1.id # r2.id
                     /\ {r1.id, r2.id} \subseteq DOMAIN r2.store
                     /\ Cardinality(DOMAIN r2.store)
                            = Cardinality(DOMAIN graph_conversations) + 2

\* a turn on the known id "a" found its messages, and an id was generated
C4_Witness ==
    \/ /\ "a" \in DOMAIN conversations
       /\ Len(conversations["a"].messages) >= 3
       /\ uuid_count >= 1
    \/ /\ "a" \in DOMAIN graph_conversations
       /\ Len(graph_conversations["a"]) >= 3
       /\ uuid_count >= 1

(* ---------------------------------------------------------------------- *)
\* C5: under any interleaving of turns on one conversation id a message,
\* once appended, is never removed, replaced or reordered by a later turn:
\* the stored history only grows at its end, unless the conversation is
\* cleared.
C5_HistoryOnlyExtends ==
    [][/\ \A id \in DOMAIN conversations :
              /\ id \in DOMAIN conversations'
              /\ IsPrefix(conversations[id].messages,
                          conversations'[id].messages)
       /\ \A id \in DOMAIN graph_conversations :
              id \in DOMAIN graph_conversations' =>
                  IsPrefix(graph_conversations[id], graph_conversations'[id])
      ]_vars

(* ---------------------------------------------------------------------- *)
\* the conversation id the step acts on: the id named in the clear or
\* history request, or the id of the turn that moved
ActingId ==
    IF admin_ops' # admin_ops THEN last_op'.id
    ELSE LET t == CHOOSE u \in Turns : turns'[u] # turns[u]
         IN turns'[t].cid

Untouched(store, store2, b) ==
    /\ b \in DOMAIN store <=> b \in DOMAIN store2
    /\ b \in DOMAIN store => store2[b] = store[b]

\* C6: a turn, a clear or a history lookup on id A leaves the state stored
\* under every other id B unchanged, under any interleaving; a turn that
\* returns leaves its own entry in the store, so that concurrent first turns
\* on two new ids both end with their own entry.
C6_OtherIdsUntouched ==
    [][/\ \A b \in (DOMAIN conversations \cup DOMAIN conversations'
                    \cup DOMAIN graph_conversations
                    \cup DOMAIN graph_conversations') \ {ActingId} :
              /\ Untouched(conversations, conversations', b)
              /\ Untouched(graph_conversations, graph_conversations', b)
       /\ \A t \in Turns :
              (~Done(t) /\ turns'[t].pc = "done"
                        /\ turns'[t].result.status = "returned") =>
                  turns'[t].cid \in DOMAIN conversations'
                                    \cup DOMAIN graph_conversations'
      ]_vars

\* two turns on different ids are in flight at once, each with its entry
C6_Witness ==
    \E t, u \in Turns :
        /\ t # u
        /\ turns[t].pc \in {"agent", "tools"}
        /\ turns[u].pc \in {"agent", "tools"}
        /\ turns[t].cid # turns[u].cid
        /\ turns[t].model_calls >= 1
        /\ turns[u].model_calls >= 1
        /\ {turns[t].cid, turns[u].cid} \subseteq DOMAIN graph_conversations

(* ---------------------------------------------------------------------- *)
\* C7: clear(id) on an id not in the store returns false (not-found) and
\* changes nothing; on an id in the store it returns true and removes the
\* whole conversation state, so that a history lookup for that id made
\* afterwards reports not-found.
C7_Clear ==
    [][(admin_ops' # admin_ops /\ last_op'.op = "clear") =>
          LET id == last_op'.id
          IN /\ last_op'.value = (id \in DOMAIN graph_conversations)
             /\ id \notin DOMAIN graph_conversations =>
                    /\ graph_conversations' = graph_conversations
                    /\ last_op'.status = 404
             /\ id \in DOMAIN graph_conversations =>
                    /\ last_op'.status = 200
                    /\ DOMAIN graph_conversations'
                           = DOMAIN graph_conversations \ {id}
             /\ id \notin DOMAIN graph_conversations'
             /\ get_conversation_history(graph_conversations', id) = None
             /\ get_history_endpoint(
                    get_conversation_history(graph_conversations', id)) = 404
      ]_vars

\* a clear of a stored conversation has just returned true
C7_Witness ==
    /\ last_op.op = "clear"
    /\ last_op.value = TRUE
    /\ last_op.id \notin DOMAIN graph_conversations
    /\ \E t \in Turns : Done(t) /\ turns[t].cid = last_op.id

(* ---------------------------------------------------------------------- *)
\* turn t made both model calls, both succeeded, and the first reply held a
\* tool call to a registered tool
ToolTurn(t) ==
    /\ Done(t)
    /\ turns[t].kind = "chat"
    /\ turns[t].result.status = "returned"
    /\ ~turns[t].result.error
    /\ turns[t].model_calls = 2
    /\ IF impl = "AIAgent"
       THEN /\ Truthy(parse_tool_call(turns[t].replies[1].v)[1])
            /\ parse_tool_call(turns[t].replies[1].v)[1].v \in RegisteredTools
       ELSE /\ turns[t].replies[1].tool_calls # <<>>
            /\ \A i \in 1..Len(turns[t].replies[1].tool_calls) :
                   turns[t].replies[1].tool_calls[i] \in GraphTools

\* the messages the store holds for turn t are the user message followed by
\* one assistant message, the second reply
OnlySecondReplyStored(t) ==
    LET id == turns[t].cid
        k == turns[t].msgs_before
    IN IF impl = "AIAgent"
       THEN /\ id \in DOMAIN conversations
            /\ LET m == conversations[id].messages
               IN /\ Len(m) >= k + 2
                  /\ m[k + 1] = Message("user", UserMessage(t))
                  /\ m[k + 2] = Message("assistant", turns[t].replies[2].v)
                  /\ Len(m) > k + 2 => m[k + 3].role = "user"
       ELSE LET m == turns[t].state
            IN /\ Len(m) = k + 2
               /\ m[k + 1] = HumanMessage(UserMessage(t))
               /\ m[k + 2] = turns[t].replies[2]

Min(a, b) == IF a <= b THEN a ELSE b

\* p is one system entry followed by the last min(10, n) of messages, in
\* their stored order
IsWindowOf(p, messages) ==
    LET n == Len(messages)
        k == Min(10, n)
    IN /\ Len(p) = 1 + k
       /\ p[1].role = "system"
       /\ \A i \in 1..k : p[1 + i] = messages[n - k + i]
       /\ \A i \in 2..Len(p) : p[i].role # "system"

\* C9: for every conversation state, whatever the number of stored
\* messages, the prompt starts with exactly one system entry followed by at
\* most 10 history entries, which are exactly the last min(10, n) stored
\* messages in their stored order.
C9_PromptWindow ==
    /\ \A id \in DOMAIN conversations, use_tools \in BOOLEAN :
           IsWindowOf(_prepare_messages(conversations[id], use_tools),
                      conversations[id].messages)
    /\ \A t \in Turns :
           (Done(t) /\ impl = "AIAgent" /\ turns[t].model_calls = 1
                    /\ turns[t].kind = "chat") =>
               IsWindowOf(turns[t].prompt,
                          SubSeq(conversations[turns[t].cid].messages, 1,
                                 turns[t].msgs_before + 1))

\* a prompt was built for a conversation of more than 10 messages
C9_Witness ==
    /\ Done(1)
    /\ turns[1].msgs_before + 1 > 10
    /\ Len(turns[1].prompt) = 11
    /\ turns[1].prompt[2] # conversations[turns[1].cid].messages[1]

(* ---------------------------------------------------------------------- *)
CountOf(seq, x) == Cardinality({i \in 1..Len(seq) : seq[i] = x})

\* the messages stored under id, none when the id is not in the store
HistoryIn(store, id) ==
    IF id \notin DOMAIN store THEN <<>>
    ELSE IF impl = "AIAgent" THEN store[id].messages ELSE store[id]

\* C10: in the streaming variant, when the model stream fails after some
\* chunks were produced a single error-text chunk is yielded, no assistant
\* message is appended and the user message stays recorded; when the stream
\* ends normally exactly one assistant message, the concatenation of all
\* chunks, is appended, and the text is never parsed for a tool call.
C10_Streaming ==
    [][\A t \in Turns :
          (turns[t].kind = "stream" /\ ~Done(t) /\ turns'[t].pc = "done") =>
              LET id == turns[t].cid
                  failed == turns'[t].result.status
                                \in {"stream_error", "raised"}
                  \* the history the turn started from, its user message
                  \* included, and the history it leaves
                  before == IF impl = "AIAgent"
                            THEN HistoryIn(conversations, id)
                            ELSE SubSeq(turns'[t].state, 1,
                                        turns[t].msgs_before + 1)
                  after == IF impl = "AIAgent"
                           THEN HistoryIn(conversations', id)
                           ELSE IF failed
                           THEN SubSeq(turns'[t].state, 1,
                                       turns[t].msgs_before + 1)
                           ELSE HistoryIn(graph_conversations', id)
                  user == IF impl = "AIAgent"
                          THEN Message("user", UserMessage(t))
                          ELSE HumanMessage(UserMessage(t))
                  assistant == IF impl = "AIAgent"
                               THEN Message("assistant",
                                            Concat(turns'[t].chunks))
                               ELSE AIMessage(Concat(turns'[t].chunks), <<>>)
              IN /\ turns'[t].tool_execs = 0
                 /\ turns'[t].parses = 0
                 /\ (failed /\ turns[t].chunks # <<>>) =>
                         /\ turns'[t].chunks
                                = Append(turns[t].chunks, STREAM_ERROR)
                         /\ CountOf(turns'[t].chunks, STREAM_ERROR) = 1
                         /\ after = before
                         /\ CountOf(after, user) >= 1
                 /\ ~failed => after = Append(before, assistant)
      ]_vars

(* ---------------------------------------------------------------------- *)
\* the call of fn has returned
Called(fn) == call.fn = fn /\ call.done

\* the lines parse_tool_call scans
ScannedLines(response) == split(strip(response))

\* index of the last line beginning with prefix, 0 when there is none
LastWith(lines, prefix) ==
    IF \E i \in 1..Len(lines) : startswith(lines[i], prefix)
    THEN CHOOSE i \in 1..Len(lines) :
             /\ startswith(lines[i], prefix)
             /\ \A j \in (i + 1)..Len(lines) : ~startswith(lines[j], prefix)
    ELSE 0

\* the trimmed remainder of a line after its leading prefix
Remainder(line) == strip(Tail(line))

\* the parse of the last PARAMETERS: line, an empty mapping when there is
\* no such line, when it is not JSON, and when it parses to an empty value
ParametersOf(lines) ==
    LET j == LastWith(lines, PR)
    IN IF j = 0 THEN EmptyDict
       ELSE LET v == json_loads(Remainder(lines[j]))
            IN IF v.t = "JSONDecodeError" THEN EmptyDict
               ELSE IF Truthy(v) THEN v ELSE EmptyDict

\* C11: parse_tool_call returns as tool name the trimmed remainder of the
\* last line beginning with TOOL_CALL: and as parameters the parse of the
\* last line beginning with PARAMETERS:, whatever the order of the lines and
\* for every TOOL_CALL: line, one with an empty remainder included.
C11_LastLineWins ==
    Called("parse_tool_call") =>
        LET lines == ScannedLines(call.args[1])
            i == LastWith(lines, TC)
        IN i > 0 =>
             /\ call.ret[1] = Str(Remainder(lines[i]))
             /\ call.ret[2] = ParametersOf(lines)

(* ---------------------------------------------------------------------- *)
\* the prefix stands once in the line, at its start
Once(line, prefix) ==
    Cardinality({k \in 1..Len(line) : line[k] = prefix}) = 1

\* nothing but the prefix and blanks: no tool name on the line
Nameless(line) == \A k \in 1..Len(line) : line[k] \in {TC, SP}

\* the reply has no PARAMETERS: line, or the last one is not JSON
NoUsableParameters(lines) ==
    LET j == LastWith(lines, PR)
    IN \/ j = 0
       \/ /\ Once(lines[j], PR)
          /\ json_loads(Remainder(lines[j])).t = "JSONDecodeError"

Required(name) ==
    CASE name = T_TIME -> {}
      [] name = T_CALC -> {"expression"}
      [] name = T_SEARCH -> {"query"}
      [] name = T_WEATHER -> {"location"}
      [] name = T_SUMMARY -> {"text"}

Accepted(name) ==
    CASE name = T_SEARCH -> {"query", "max_results"}
      [] name = T_SUMMARY -> {"text", "max_length"}
      [] OTHER -> Required(name)

\* the parameters match the handler's signature
Binds(name, parameters) ==
    /\ parameters.t = "dict"
    /\ Required(name) \subseteq parameters.keys
    /\ parameters.keys \subseteq Accepted(name)

\* C13: execute fails with a not-found error when the name is not
\* registered; for a registered name it returns the handler's return value,
\* and when the handler raises, parameters that do not match its signature
\* included, it returns the text "Error executing tool: ..." and does not
\* raise.
C13_Execute ==
    Called("execute") =>
        LET name == call.args[1]
            parameters == call.args[2]
            r == call.ret
        IN /\ name \notin RegisteredTools => r = [t |-> "ValueError"]
           /\ name \in RegisteredTools =>
                 /\ r.t = "str"
                 /\ ~Binds(name, parameters) => r = Str(TOOL_ERROR)
                 /\ Binds(name, parameters) =>
                       /\ name = T_TIME => r = Str(TIME_TEXT)
                       /\ name = T_CALC =>
                              r = Str(calculate(parameters.expression))
                       /\ name = T_SEARCH => r = Str(SEARCH_TEXT)
                       /\ name = T_WEATHER =>
                              r = Str(WEATHER_TEXT(parameters.location))
                       /\ (name = T_SUMMARY
                               /\ "max_length" \in parameters.keys
                               /\ parameters.max_length.t # "int") =>
                              r = Str(TOOL_ERROR)
                       /\ parameters = SummaryDict(EXAMPLE_TEXT, Num(3)) =>
                              r = Str(<<"a", ".", ".", ".">>)

\* a handler that raised inside a call matching its signature: the
\* comparison of a length with a text in create_summary
C13_Witness ==
    /\ Called("execute")
    /\ call.args[1] = T_SUMMARY
    /\ call.args[2] = SummaryDict(EXAMPLE_TEXT, Str(<<"3">>))
    /\ call.ret = Str(TOOL_ERROR)

(* ---------------------------------------------------------------------- *)
\* the text of an integer: digits, after a sign when it is negative
IsNumberText(text) ==
    /\ text # <<>>
    /\ \A i \in 1..Len(text) :
           text[i] \in DigitChars \/ (i = 1 /\ text[i] = "-" /\ Len(text) > 1)

\* C14: calculate evaluates the expression only if every character is a
\* digit, one of + - * / ( ) % . or a space; for an expression holding
\* another character it returns "Error: Invalid characters in expression"
\* and the evaluation is never reached; for an accepted expression it
\* returns the result as text, or an error text and no exception when the
\* evaluation fails, as on a division by zero or a syntax error.
C14_Calculate ==
    Called("calculate") =>
        LET expression == call.args[1]
            r == call.ret
            accepted == \A i \in 1..Len(expression) :
                            expression[i] \in AllowedChars
        IN /\ ~accepted => (r.value = INVALID_CHARS /\ ~r.evaluated)
           /\ accepted =>
                 /\ r.evaluated
                 /\ \/ IsNumberText(r.value)
                    \/ /\ IsPrefix(CALC_ERROR, r.value)
                       /\ Len(r.value) = Len(CALC_ERROR) + 1
           /\ expression = <<"1", "+", "1">> => r.value = <<"2">>
           /\ expression = <<"1", "%", "0">> =>
                  r.value = CALC_ERROR \o <<"ZeroDivisionError">>
           /\ expression = <<"1", "+">> =>
                  r.value = CALC_ERROR \o <<"SyntaxError">>

\* an expression that would evaluate but for one letter was rejected
\* without being evaluated
C14_Witness ==
    /\ Called("calculate")
    /\ call.args[1] = <<"1", "+", "a">>
    /\ call.ret.value = INVALID_CHARS
    /\ ~call.ret.evaluated

(* ---------------------------------------------------------------------- *)
IsSpace(c) == c \in {SP, NL}

\* p cut back to its last whitespace character, p itself without one
CutAtWhitespace(p) ==
    IF \E i \in 1..Len(p) : IsSpace(p[i])
    THEN LET i == CHOOSE k \in 1..Len(p) :
                      IsSpace(p[k]) /\ \A j \in (k + 1)..Len(p) : ~IsSpace(p[j])
         IN SubSeq(p, 1, i - 1)
    ELSE p

\* C16 as stated: for every text and max_length, a text longer than
\* max_length gives its first max_length characters, cut back to the last
\* whitespace boundary in them, followed by "...".
C16_CutAtWhitespace ==
    Called("create_summary") =>
        LET text == call.args[1]
            max_length == call.args[2]
        IN IF Len(text) <= max_length THEN call.ret = text
           ELSE call.ret
                  = CutAtWhitespace(SubSeq(text, 1, max_length)) \o ELLIPSIS

\* C16 (amended): create_summary returns text unchanged when len(text) <=
\* max_length; otherwise it takes the prefix text[:max_length] (the first
\* max_length characters, or text without its last -max_length characters
\* when max_length is negative), cuts it back to just before its last space
\* character if it holds one (a newline is no boundary, and a prefix
\* without a space is kept whole), and appends "...".
C16_CreateSummary ==
    Called("create_summary") =>
        LET text == call.args[1]
            max_length == call.args[2]
            n == IF max_length >= 0 THEN max_length
                 ELSE IF Len(text) + max_length > 0
                 THEN Len(text) + max_length ELSE 0
            p == SubSeq(text, 1, n)
        IN IF Len(text) <= max_length THEN call.ret = text
           ELSE \E k \in 0..Len(p) :
                  /\ call.ret = SubSeq(p, 1, k) \o ELLIPSIS
                  /\ \/ k = Len(p) /\ \A j \in 1..Len(p) : p[j] # SP
                     \/ /\ k < Len(p)
                        /\ p[k + 1] = SP
                        /\ \A j \in (k + 2)..Len(p) : p[j] # SP

\* the example of the claim: ("a b c d e", 3) gives "a..."
C16_Witness ==
    /\ Called("create_summary")
    /\ call.args[1] = EXAMPLE_TEXT
    /\ call.args[2] = 3
    /\ call.ret = <<"a", ".", ".", ".">>

(* ---------------------------------------------------------------------- *)
\* the step just taken served a history request
HistoryServed == admin_ops' # admin_ops /\ last_op'.op = "history"

\* positions of the human and AI messages of a stored list
Turnlike(messages) ==
    {i \in 1..Len(messages) : messages[i].type \in {"human", "ai"}}

\* the k-th of these positions
KthTurn(messages, k) ==
    CHOOSE i \in Turnlike(messages) :
        Cardinality({j \in Turnlike(messages) : j <= i}) = k

\* C15: history(id) returns absent for an id not in the store; for a known
\* id it returns the stored user and assistant turns only, as {role,
\* content} pairs in their original order, tool messages left out, and it
\* does not change the store.
C15_History ==
    [][HistoryServed =>
         LET id == last_op'.id
             history == last_op'.value
         IN /\ graph_conversations' = graph_conversations
            /\ id \notin DOMAIN graph_conversations =>
                  (history = None /\ last_op'.status = HTTP_NOT_FOUND)
            /\ id \in DOMAIN graph_conversations =>
                  LET messages == graph_conversations[id]
                  IN /\ history.t = "list"
                     /\ last_op'.status = HTTP_OK
                     /\ Len(history.v) = Cardinality(Turnlike(messages))
                     /\ \A k \in 1..Len(history.v) :
                           LET m == messages[KthTurn(messages, k)]
                           IN /\ history.v[k].content = m.content
                              /\ history.v[k].role
                                    = IF m.type = "human" THEN "user"
                                      ELSE "assistant"
      ]_vars

\* the history of a conversation that holds a tool message was served
C15_Witness ==
    /\ last_op.op = "history"
    /\ last_op.id \in DOMAIN graph_conversations
    /\ \E i \in 1..Len(graph_conversations[last_op.id]) :
           graph_conversations[last_op.id][i].type = "tool"
    /\ last_op.value.t = "list"
    /\ Len(last_op.value.v) = Len(graph_conversations[last_op.id]) - 1

(* ---------------------------------------------------------------------- *)
\* C17: once clear(id) has returned true the id stays absent from the store
\* until a chat turn that starts after the clear references it: an id comes
\* into the store only in the step in which a turn on that id starts, never
\* when a turn that was already in flight completes.
C17_ClearedStaysAbsent ==
    [][\A id \in DOMAIN graph_conversations' :
          id \notin DOMAIN graph_conversations =>
              \E t \in Turns : /\ turns[t].pc = "idle"
                               /\ turns'[t].pc # "idle"
                               /\ turns'[t].cid = id
      ]_vars

(* ---------------------------------------------------------------------- *)
\* the stored history holds user and assistant messages only, and every
\* assistant message stands directly after a user message
WellFormed(messages) ==
    \A i \in 1..Len(messages) :
        /\ messages[i].role \in {"user", "assistant"}
        /\ messages[i].role = "assistant" =>
               (i > 1 /\ messages[i - 1].role = "user")

\* C18: after any sequence of serial chat turns on one conversation of
\* AIAgent the stored history holds only user and assistant messages, every
\* assistant message directly preceded by a user message; a turn that
\* returns without error appends exactly two messages, user then assistant,
\* a failed turn exactly one, the user message; and the returned
\* message_count is the length of the stored history.
C18_SerialTurns ==
    [][impl = "AIAgent" =>
         /\ \A id \in DOMAIN conversations' :
                WellFormed(conversations'[id].messages)
         /\ \A t \in Turns :
                (turns[t].pc = "idle" /\ turns'[t].pc = "done") =>
                    LET id == turns'[t].cid
                        result == turns'[t].result
                        before == HistoryIn(conversations, id)
                        after == conversations'[id].messages
                        user == Message("user", UserMessage(t))
                    IN /\ result.status = "returned"
                       /\ result.error =>
                              after = Append(before, user)
                       /\ ~result.error =>
                              /\ after = before \o
                                     <<user,
                                       Message("assistant", result.response)>>
                              /\ result.message_count = Len(after)
      ]_vars

\* one conversation after a failed turn and a turn that used a tool
C18_Witness ==
    /\ impl = "AIAgent"
    /\ \E t, u \in Turns :
           /\ Done(t) /\ Done(u)
           /\ turns[t].cid = turns[u].cid
           /\ turns[t].result.error
           /\ ~turns[u].result.error
           /\ turns[u].tool_execs = 1
           /\ Len(conversations[turns[t].cid].messages) = 3

=============================================================================
